---- MODULE Spec2Model ----
(***************************************************************************)
(* metapiston: pydantic models of the Minecraft launcher's metadata        *)
(* documents (VersionManifestV1, VersionManifestV2, ClientV1) and the URL  *)
(* builders of urls.py.                                                    *)
(*                                                                         *)
(* Text is modelled as a sequence of tokens (a token is a character or a   *)
(* fixed literal piece such as "packages"), so that slicing, URL           *)
(* normalisation and number formatting are computed.  A JSON value is a    *)
(* tagged record; a validated Python value is another tagged record.       *)
(***************************************************************************)
EXTENDS Integers, Sequences, FiniteSets, TLC

VARIABLES
    schema,     \* the document class the caller works with
    raw,        \* the JSON document the caller holds
    edit,       \* how raw differs from a well-formed document (one place at most)
    doc,        \* the document object built from raw, PNone while there is none
    built,      \* that object as it was when it was constructed
    last        \* the last call made, with its arguments and its outcome

vars == <<schema, raw, edit, doc, built, last>>

-----------------------------------------------------------------------------
(* Bounds of the model.                                                    *)

MaxEntries == 2     \* entries of a manifest's versions, libraries of a client
MaxHashLen == 3     \* length of a hash passed to urls.py
MaxFileLen == 2     \* length of a file name passed to urls.py
MaxVersion == 3     \* api_version / file_version range -1..MaxVersion
MaxSize == 2        \* size / totalSize of an asset index range -MaxSize..MaxSize

-----------------------------------------------------------------------------
(* Text helpers.                                                           *)

Digits == <<"0", "1", "2", "3", "4", "5", "6", "7", "8", "9">>

Min(a, b) == IF a < b THEN a ELSE b

\* Python's str(n) / f"{n}" for an int.
RECURSIVE NatToStr(_)
NatToStr(n) ==
    IF n < 10 THEN <<Digits[n + 1]>>
    ELSE NatToStr(n \div 10) \o <<Digits[(n % 10) + 1]>>

IntToStr(n) == IF n < 0 THEN <<"-">> \o NatToStr(-n) ELSE NatToStr(n)

DigitValue(c) == CHOOSE i \in 0..9 : Digits[i + 1] = c

IsDigits(s) == Len(s) > 0 /\ \A i \in 1..Len(s) : \E d \in 1..10 : Digits[d] = s[i]

RECURSIVE StrToNat(_)
StrToNat(s) ==
    IF Len(s) = 0 THEN 0
    ELSE 10 * StrToNat(SubSeq(s, 1, Len(s) - 1)) + DigitValue(s[Len(s)])

\* Python's s[:n].
Prefix(s, n) == SubSeq(s, 1, Min(n, Len(s)))

RECURSIVE Join(_, _)
Join(ws, sep) ==
    IF Len(ws) = 0 THEN ""
    ELSE IF Len(ws) = 1 THEN ws[1]
    ELSE ws[1] \o sep \o Join(Tail(ws), sep)

-----------------------------------------------------------------------------
(* pydantic_core.Url: the WHATWG parse of an http(s) URL.  A URL text is   *)
(* an origin token followed by path tokens; "/" separates segments.        *)

Origins == {"https://piston-meta.mojang.com",
            "https://resources.download.minecraft.net",
            "https://piston-data.mojang.com",
            "https://libraries.minecraft.net"}

\* The segments of a path text: the token runs between "/" tokens.
RECURSIVE Segments(_, _, _)
Segments(s, i, cur) ==
    IF i > Len(s) THEN <<cur>>
    ELSE IF s[i] = "/" THEN <<cur>> \o Segments(s, i + 1, <<>>)
    ELSE Segments(s, i + 1, Append(cur, s[i]))

IsDot(seg) == seg = <<".">>
IsDotDot(seg) == seg = <<".", ".">>

\* Resolve "." and ".." segments, left to right.
RECURSIVE RemoveDots(_, _, _)
RemoveDots(segs, i, acc) ==
    IF i > Len(segs) THEN acc
    ELSE LET final == i = Len(segs)
             seg == segs[i]
         IN IF IsDotDot(seg)
            THEN LET popped == IF Len(acc) > 0 THEN SubSeq(acc, 1, Len(acc) - 1) ELSE acc
                 IN RemoveDots(segs, i + 1, IF final THEN Append(popped, <<>>) ELSE popped)
            ELSE IF IsDot(seg)
            THEN RemoveDots(segs, i + 1, IF final THEN Append(acc, <<>>) ELSE acc)
            ELSE RemoveDots(segs, i + 1, Append(acc, seg))

RECURSIVE JoinPath(_, _)
JoinPath(segs, i) ==
    IF i > Len(segs) THEN <<>>
    ELSE <<"/">> \o segs[i] \o JoinPath(segs, i + 1)

\* A URL text is valid when it starts with a known origin, followed by
\* nothing or by a path starting with "/".
UrlValid(s) ==
    /\ Len(s) >= 1
    /\ s[1] \in Origins
    /\ Len(s) >= 2 => s[2] = "/"

\* The normalised text of a valid URL (what str(Url(s)) returns).
UrlNormalise(s) ==
    IF Len(s) = 1 THEN <<s[1], "/">>
    ELSE LET segs == Segments(s, 3, <<>>)
             kept == RemoveDots(segs, 1, <<>>)
         IN <<s[1]>> \o (IF Len(kept) = 0 THEN <<"/">> ELSE JoinPath(kept, 1))

-----------------------------------------------------------------------------
(* JSON values (the wire format).                                          *)

JStr(s) == [t |-> "string", s |-> s]
JInt(n) == [t |-> "number", n |-> n]
JBool(b) == [t |-> "bool", b |-> b]
JNull == [t |-> "null"]
JArr(a) == [t |-> "array", a |-> a]
JObj(o) == [t |-> "object", o |-> o]

\* A one-token text, for values that are only compared.
W(w) == JStr(<<w>>)

(* Python values (what validation produces).                               *)

PStr(s) == [p |-> "str", s |-> s]
PInt(n) == [p |-> "int", n |-> n]
PBool(b) == [p |-> "bool", b |-> b]
PNone == [p |-> "None"]
PUrl(s) == [p |-> "Url", s |-> s]
PDatetime(naive, tz) == [p |-> "datetime", naive |-> naive, tz |-> tz]
PList(a) == [p |-> "list", a |-> a]
PDict(d) == [p |-> "dict", d |-> d]
PModel(cls, f) == [p |-> "model", cls |-> cls, f |-> f]

-----------------------------------------------------------------------------
(* Field types and class declarations.                                     *)

TStr == [k |-> "str"]
TInt == [k |-> "int"]
TBool == [k |-> "bool"]
TNone == [k |-> "None"]
TAnyUrl == [k |-> "AnyUrl"]
TDatetime == [k |-> "datetime"]
TModel(cls) == [k |-> "model", cls |-> cls]
TList(of) == [k |-> "list", of |-> of]
TDict(of) == [k |-> "dict", of |-> of]
TUnion(alts) == [k |-> "union", alts |-> alts]
Optional(ty) == TUnion(<<ty, TNone>>)

\* A declared field: its name as underscore-separated words, its type, and
\* whether it has no default (pydantic then requires the key).
Required(words, ty) == [words |-> words, type |-> ty, required |-> TRUE]
Defaulted(words, ty) == [words |-> words, type |-> ty, required |-> FALSE]

\* pydantic's defaults for a ConfigDict key that is not given.
ConfigDict(extra, frozen, alias_generator) ==
    [extra |-> extra, frozen |-> frozen, alias_generator |-> alias_generator]

\* (a LauncherModel that leaves extra at pydantic's default)
LauncherModel_ExtraIgnored == ConfigDict("ignore", TRUE, "to_camel")

LauncherModel == ConfigDict("forbid", TRUE, "to_camel")

VersionManifestV1_model_config == ConfigDict("forbid", TRUE, "to_camel")
VersionManifestV2_model_config == ConfigDict("forbid", TRUE, "to_camel")
ClientV1_model_config == ConfigDict("forbid", TRUE, "to_camel")
\* (a ConfigDict that leaves frozen at pydantic's default)
ClientV1_Downloads_model_config_NotFrozen == ConfigDict("forbid", FALSE, "None")

\* ConfigDict(extra="forbid", frozen=True): no alias_generator.
ClientV1_Downloads_model_config == ConfigDict("forbid", TRUE, "None")

VersionManifestV1 ==
    << Required(<<"latest">>, TModel("VersionManifestV1.Latest")),
       Required(<<"versions">>, TList(TModel("VersionManifestV1.Version"))) >>

VersionManifestV1_Latest ==
    << Required(<<"release">>, TStr),
       Required(<<"snapshot">>, TStr) >>

VersionManifestV1_Version ==
    << Required(<<"id">>, TStr),
       Required(<<"type">>, TStr),
       Required(<<"url">>, TAnyUrl),
       Required(<<"time">>, TDatetime),
       Required(<<"release", "time">>, TDatetime) >>

VersionManifestV2 ==
    << Required(<<"latest">>, TModel("VersionManifestV2.Latest")),
       Required(<<"versions">>, TList(TModel("VersionManifestV2.Version"))) >>

VersionManifestV2_Latest ==
    << Required(<<"release">>, TStr),
       Required(<<"snapshot">>, TStr) >>

\* (sha1 and compliance_level declared with a default)
VersionManifestV2_Version_HashDefaulted ==
    << Required(<<"id">>, TStr),
       Required(<<"type">>, TStr),
       Required(<<"url">>, TAnyUrl),
       Required(<<"time">>, TDatetime),
       Required(<<"release", "time">>, TDatetime),
       Defaulted(<<"sha1">>, Optional(TStr)),
       Defaulted(<<"compliance", "level">>, Optional(TInt)) >>

VersionManifestV2_Version ==
    << Required(<<"id">>, TStr),
       Required(<<"type">>, TStr),
       Required(<<"url">>, TAnyUrl),
       Required(<<"time">>, TDatetime),
       Required(<<"release", "time">>, TDatetime),
       Required(<<"sha1">>, TStr),
       Required(<<"compliance", "level">>, TInt) >>

ClientV1 ==
    << Defaulted(<<"arguments">>, Optional(TModel("ClientV1.Arguments"))),
       Required(<<"asset", "index">>, TModel("ClientV1.AssetIndex")),
       Required(<<"assets">>, TStr),
       Required(<<"compliance", "level">>, TInt),
       Required(<<"downloads">>, TModel("ClientV1.Downloads")),
       Required(<<"id">>, TStr),
       Required(<<"java", "version">>, TModel("ClientV1.JavaVersion")),
       Required(<<"libraries">>, TList(TModel("ClientV1.Library"))),
       Required(<<"logging">>, Optional(TModel("ClientV1.Logging"))),
       Required(<<"main", "class">>, TStr),
       Defaulted(<<"minecraft", "arguments">>, Optional(TStr)),
       Required(<<"minimum", "launcher", "version">>, TInt),
       Required(<<"release", "time">>, TStr),
       Required(<<"time">>, TStr),
       Required(<<"type">>, TStr) >>

ClientV1_Arguments ==
    << Required(<<"game">>,
           TList(TUnion(<<TStr, TModel("ClientV1.Arguments.ConditionalGameArgument")>>))),
       Required(<<"jvm">>,
           TList(TUnion(<<TStr, TModel("ClientV1.Arguments.ConditionalJVMArgument")>>))) >>

ClientV1_Arguments_ConditionalGameArgument ==
    << Required(<<"rules">>, TList(TModel("ClientV1.Arguments.ConditionalGameArgument.Rule"))),
       Required(<<"value">>, TUnion(<<TStr, TList(TStr)>>)) >>

ClientV1_Arguments_ConditionalGameArgument_Rule ==
    << Required(<<"action">>, TStr),
       Required(<<"features">>, TDict(TBool)) >>

ClientV1_Arguments_ConditionalJVMArgument ==
    << Required(<<"rules">>, TList(TModel("ClientV1.Arguments.ConditionalJVMArgument.Rule"))),
       Required(<<"value">>, TUnion(<<TStr, TList(TStr)>>)) >>

\* (os declared as in Library.Rule: Optional[OS] = None)
ClientV1_Arguments_ConditionalJVMArgument_Rule_OsDefaulted ==
    << Required(<<"action">>, TStr),
       Defaulted(<<"os">>,
           Optional(TModel("ClientV1.Arguments.ConditionalJVMArgument.Rule.OS"))) >>

ClientV1_Arguments_ConditionalJVMArgument_Rule ==
    << Required(<<"action">>, TStr),
       Required(<<"os">>, TModel("ClientV1.Arguments.ConditionalJVMArgument.Rule.OS")) >>

ClientV1_Arguments_ConditionalJVMArgument_Rule_OS ==
    << Defaulted(<<"name">>, Optional(TStr)),
       Defaulted(<<"version">>, Optional(TStr)),
       Defaulted(<<"arch">>, Optional(TStr)) >>

ClientV1_AssetIndex ==
    << Required(<<"id">>, TStr),
       Required(<<"sha1">>, TStr),
       Required(<<"size">>, TInt),
       Required(<<"total", "size">>, TInt),
       Required(<<"url">>, TAnyUrl) >>

ClientV1_Downloads ==
    << Required(<<"client">>, TModel("ClientV1.Downloads.Download")),
       Defaulted(<<"client", "mappings">>, Optional(TModel("ClientV1.Downloads.Download"))),
       Required(<<"server">>, TModel("ClientV1.Downloads.Download")),
       Defaulted(<<"server", "mappings">>, Optional(TModel("ClientV1.Downloads.Download"))),
       Defaulted(<<"windows", "server">>, Optional(TModel("ClientV1.Downloads.Download"))) >>

ClientV1_Downloads_Download ==
    << Required(<<"sha1">>, TStr),
       Required(<<"size">>, TInt),
       Required(<<"url">>, TAnyUrl) >>

ClientV1_JavaVersion ==
    << Required(<<"component">>, TStr),
       Required(<<"major", "version">>, TInt) >>

ClientV1_Library ==
    << Required(<<"downloads">>, TModel("ClientV1.Library.Downloads")),
       Required(<<"name">>, TStr),
       Defaulted(<<"url">>, Optional(TAnyUrl)),
       Defaulted(<<"natives">>, Optional(TDict(TStr))),
       Defaulted(<<"extract">>, Optional(TModel("ClientV1.Library.Extract"))),
       Defaulted(<<"rules">>, Optional(TList(TModel("ClientV1.Library.Rule")))) >>

ClientV1_Library_Downloads ==
    << Defaulted(<<"artifact">>, Optional(TModel("ClientV1.Library.Downloads.Artifact"))),
       Defaulted(<<"classifiers">>,
           Optional(TDict(TModel("ClientV1.Library.Downloads.Artifact")))) >>

ClientV1_Library_Downloads_Artifact ==
    << Required(<<"path">>, TStr),
       Required(<<"sha1">>, TStr),
       Required(<<"size">>, TInt),
       Required(<<"url">>, TStr) >>

ClientV1_Library_Extract ==
    << Required(<<"exclude">>, TList(TStr)) >>

ClientV1_Library_Rule ==
    << Required(<<"action">>, TStr),
       Defaulted(<<"os">>, Optional(TModel("ClientV1.Library.Rule.OS"))) >>

ClientV1_Library_Rule_OS ==
    << Defaulted(<<"name">>, Optional(TStr)),
       Defaulted(<<"version">>, Optional(TStr)),
       Defaulted(<<"arch">>, Optional(TStr)) >>

ClientV1_Logging ==
    << Required(<<"client">>, TModel("ClientV1.Logging.Client")) >>

ClientV1_Logging_Client ==
    << Required(<<"argument">>, TStr),
       Required(<<"file">>, TModel("ClientV1.Logging.Client.File")),
       Required(<<"type">>, TStr) >>

ClientV1_Logging_Client_File ==
    << Required(<<"id">>, TStr),
       Required(<<"sha1">>, TStr),
       Required(<<"size">>, TInt),
       Required(<<"url">>, TStr) >>

Schemas == {"VersionManifestV1", "VersionManifestV2", "ClientV1"}

\* The fields a class declares, in declaration order.
Fields(cls) ==
    CASE cls = "VersionManifestV1" -> VersionManifestV1
      [] cls = "VersionManifestV1.Latest" -> VersionManifestV1_Latest
      [] cls = "VersionManifestV1.Version" -> VersionManifestV1_Version
      [] cls = "VersionManifestV2" -> VersionManifestV2
      [] cls = "VersionManifestV2.Latest" -> VersionManifestV2_Latest
      [] cls = "VersionManifestV2.Version" -> VersionManifestV2_Version
      [] cls = "ClientV1" -> ClientV1
      [] cls = "ClientV1.Arguments" -> ClientV1_Arguments
      [] cls = "ClientV1.Arguments.ConditionalGameArgument" ->
            ClientV1_Arguments_ConditionalGameArgument
      [] cls = "ClientV1.Arguments.ConditionalGameArgument.Rule" ->
            ClientV1_Arguments_ConditionalGameArgument_Rule
      [] cls = "ClientV1.Arguments.ConditionalJVMArgument" ->
            ClientV1_Arguments_ConditionalJVMArgument
      [] cls = "ClientV1.Arguments.ConditionalJVMArgument.Rule" ->
            ClientV1_Arguments_ConditionalJVMArgument_Rule
      [] cls = "ClientV1.Arguments.ConditionalJVMArgument.Rule.OS" ->
            ClientV1_Arguments_ConditionalJVMArgument_Rule_OS
      [] cls = "ClientV1.AssetIndex" -> ClientV1_AssetIndex
      [] cls = "ClientV1.Downloads" -> ClientV1_Downloads
      [] cls = "ClientV1.Downloads.Download" -> ClientV1_Downloads_Download
      [] cls = "ClientV1.JavaVersion" -> ClientV1_JavaVersion
      [] cls = "ClientV1.Library" -> ClientV1_Library
      [] cls = "ClientV1.Library.Downloads" -> ClientV1_Library_Downloads
      [] cls = "ClientV1.Library.Downloads.Artifact" -> ClientV1_Library_Downloads_Artifact
      [] cls = "ClientV1.Library.Extract" -> ClientV1_Library_Extract
      [] cls = "ClientV1.Library.Rule" -> ClientV1_Library_Rule
      [] cls = "ClientV1.Library.Rule.OS" -> ClientV1_Library_Rule_OS
      [] cls = "ClientV1.Logging" -> ClientV1_Logging
      [] cls = "ClientV1.Logging.Client" -> ClientV1_Logging_Client
      [] cls = "ClientV1.Logging.Client.File" -> ClientV1_Logging_Client_File

\* The configuration in force for a class: its own model_config, or the one
\* it inherits from LauncherModel.
model_config(cls) ==
    CASE cls = "VersionManifestV1" -> VersionManifestV1_model_config
      [] cls = "VersionManifestV2" -> VersionManifestV2_model_config
      [] cls = "ClientV1" -> ClientV1_model_config
      [] cls = "ClientV1.Downloads" -> ClientV1_Downloads_model_config
      [] OTHER -> LauncherModel

-----------------------------------------------------------------------------
(* Field names.                                                            *)

\* str.title() of one lower-case word.
Title(w) ==
    CASE w = "index" -> "Index"
      [] w = "level" -> "Level"
      [] w = "version" -> "Version"
      [] w = "class" -> "Class"
      [] w = "arguments" -> "Arguments"
      [] w = "launcher" -> "Launcher"
      [] w = "time" -> "Time"
      [] w = "size" -> "Size"
      [] w = "mappings" -> "Mappings"
      [] w = "server" -> "Server"
      [] w = "asset" -> "Asset"
      [] w = "compliance" -> "Compliance"
      [] w = "java" -> "Java"
      [] w = "main" -> "Main"
      [] w = "minecraft" -> "Minecraft"
      [] w = "minimum" -> "Minimum"
      [] w = "release" -> "Release"
      [] w = "total" -> "Total"
      [] w = "client" -> "Client"
      [] w = "windows" -> "Windows"
      [] w = "major" -> "Major"

RECURSIVE TitleAll(_)
TitleAll(ws) == IF Len(ws) = 0 THEN "" ELSE Title(ws[1]) \o TitleAll(Tail(ws))

\* The attribute name of a field: its words joined by underscores.
FieldName(f) == Join(f.words, "_")

\* (the words left joined by underscores: no conversion)
to_camel_Underscored(words) == Join(words, "_")

\* pydantic.alias_generators.to_camel: the first word as it is, every later
\* word capitalised, the underscores dropped.
to_camel(words) == words[1] \o TitleAll(Tail(words))

\* The key under which a field is read from and (by_alias) written to JSON.
Alias(cls, f) ==
    IF model_config(cls).alias_generator = "to_camel" THEN to_camel(f.words)
    ELSE FieldName(f)

-----------------------------------------------------------------------------
(* Validation: model_validate_json.  The outcome is the set of error kinds *)
(* (empty on success) and the value built.                                 *)

Ok(v) == [errs |-> {}, v |-> v]
Err(e) == [errs |-> {e}, v |-> PNone]

\* str: only a JSON string (numbers are not coerced to str).
ValidateStr(j) == IF j.t = "string" THEN Ok(PStr(j.s)) ELSE Err("string_type")

\* int, lax mode: a JSON number, a bool, or a string of digits with an
\* optional sign.
ValidateInt(j) ==
    CASE j.t = "number" -> Ok(PInt(j.n))
      [] j.t = "bool" -> Ok(PInt(IF j.b THEN 1 ELSE 0))
      [] j.t = "string" ->
            IF IsDigits(j.s) THEN Ok(PInt(StrToNat(j.s)))
            ELSE IF Len(j.s) > 1 /\ j.s[1] = "-" /\ IsDigits(Tail(j.s))
                 THEN Ok(PInt(0 - StrToNat(Tail(j.s))))
            ELSE Err("int_parsing")
      [] OTHER -> Err("int_type")

\* bool, lax mode: a JSON bool, or the number 0 or 1.
ValidateBool(j) ==
    CASE j.t = "bool" -> Ok(PBool(j.b))
      [] j.t = "number" ->
            IF j.n \in {0, 1} THEN Ok(PBool(j.n = 1)) ELSE Err("bool_parsing")
      [] OTHER -> Err("bool_type")

ValidateNone(j) == IF j.t = "null" THEN Ok(PNone) ELSE Err("none_required")

\* AnyUrl: a string that parses as a URL; the value holds the normalised text.
ValidateAnyUrl(j) ==
    IF j.t # "string" THEN Err("url_type")
    ELSE IF UrlValid(j.s) THEN Ok(PUrl(UrlNormalise(j.s)))
    ELSE Err("url_parsing")

\* Unix timestamps the model covers, as seconds after the epoch.
TimestampRange == 0..59
FromTimestamp(n) == "1970-01-01T00:00:" \o Digits[(n \div 10) + 1] \o Digits[(n % 10) + 1]

\* ISO-8601 texts are a date-time token and an optional offset token.
NaiveTimes == {"2023-10-04T13:32:44", "2023-09-20T09:02:57", "2010-07-08T22:00:00"}
                 \cup {FromTimestamp(n) : n \in TimestampRange}
Offsets == {"Z", "+00:00", "+02:00"}

\* The tzinfo of an offset token: "Z" and "+00:00" are both UTC.
TzOf(tok) == IF tok \in {"Z", "+00:00"} THEN "UTC" ELSE tok

\* datetime: an ISO-8601 string (naive or with an offset) or a unix timestamp.
ValidateDatetime(j) ==
    CASE j.t = "string" ->
            IF Len(j.s) = 1 /\ j.s[1] \in NaiveTimes THEN Ok(PDatetime(j.s[1], "naive"))
            ELSE IF Len(j.s) = 2 /\ j.s[1] \in NaiveTimes /\ j.s[2] \in Offsets
                 THEN Ok(PDatetime(j.s[1], TzOf(j.s[2])))
            ELSE Err("datetime_from_date_parsing")
      [] j.t = "number" ->
            IF j.n \in TimestampRange THEN Ok(PDatetime(FromTimestamp(j.n), "UTC"))
            ELSE Err("datetime_parsing")
      [] OTHER -> Err("datetime_type")

\* The members of a finite set of strings, in some fixed order.
RECURSIVE SetToSeq(_)
SetToSeq(S) ==
    IF S = {} THEN <<>>
    ELSE LET x == CHOOSE y \in S : TRUE IN <<x>> \o SetToSeq(S \ {x})

IndexOf(seq, x) == CHOOSE i \in 1..Len(seq) : seq[i] = x

AllErrs(rs) == UNION {rs[i].errs : i \in 1..Len(rs)}

RECURSIVE FirstOk(_, _)
FirstOk(rs, i) == IF rs[i].errs = {} THEN rs[i] ELSE FirstOk(rs, i + 1)

RECURSIVE Validate(_, _)
RECURSIVE ValidateEach(_, _, _)
RECURSIVE ValidateAlts(_, _, _)
RECURSIVE ValidateFields(_, _, _, _)

\* One class: every declared field is read under its alias; a missing key
\* is an error for a field without default, else the default (None) is
\* taken; under extra="forbid" a key that is no alias is an error.
ValidateModel(cls, j) ==
    IF j.t # "object" THEN Err("model_type")
    ELSE LET fs == Fields(cls)
             cfg == model_config(cls)
             o == j.o
             aliases == [i \in 1..Len(fs) |-> Alias(cls, fs[i])]
             known == {aliases[i] : i \in 1..Len(fs)}
             extra == IF cfg.extra = "forbid" THEN DOMAIN o \ known ELSE {}
             r == ValidateFields(cls, fs, o, 1)
             errs == (IF extra # {} THEN {"extra_forbidden"} ELSE {}) \cup AllErrs(r)
             names == <<>> \o [i \in 1..Len(fs) |-> FieldName(fs[i])]
         IN IF errs # {} THEN [errs |-> errs, v |-> PNone]
            ELSE Ok(PModel(cls, [n \in {names[i] : i \in 1..Len(fs)} |->
                                    r[IndexOf(names, n)].v]))

\* The outcomes for the fields fs[i..], in declaration order.
ValidateFields(cls, fs, o, i) ==
    IF i > Len(fs) THEN <<>>
    ELSE LET alias == Alias(cls, fs[i])
             here == IF alias \in DOMAIN o THEN Validate(fs[i].type, o[alias])
                     ELSE IF fs[i].required THEN Err("missing")
                     ELSE Ok(PNone)
         IN <<here>> \o ValidateFields(cls, fs, o, i + 1)

\* The outcomes for the values a[i..] against one type.
ValidateEach(ty, a, i) ==
    IF i > Len(a) THEN <<>>
    ELSE <<Validate(ty, a[i])>> \o ValidateEach(ty, a, i + 1)

\* The outcomes of one value against the alternatives alts[i..].
ValidateAlts(alts, j, i) ==
    IF i > Len(alts) THEN <<>>
    ELSE <<Validate(alts[i], j)>> \o ValidateAlts(alts, j, i + 1)

Validate(ty, j) ==
    CASE ty.k = "str" -> ValidateStr(j)
      [] ty.k = "int" -> ValidateInt(j)
      [] ty.k = "bool" -> ValidateBool(j)
      [] ty.k = "None" -> ValidateNone(j)
      [] ty.k = "AnyUrl" -> ValidateAnyUrl(j)
      [] ty.k = "datetime" -> ValidateDatetime(j)
      [] ty.k = "model" -> ValidateModel(ty.cls, j)
      [] ty.k = "list" ->
            IF j.t # "array" THEN Err("list_type")
            ELSE LET r == ValidateEach(ty.of, j.a, 1)
                     errs == AllErrs(r)
                 IN IF errs # {} THEN [errs |-> errs, v |-> PNone]
                    ELSE Ok(PList([i \in 1..Len(r) |-> r[i].v]))
      [] ty.k = "dict" ->
            IF j.t # "object" THEN Err("dict_type")
            ELSE LET keys == SetToSeq(DOMAIN j.o)
                     r == ValidateEach(ty.of, [i \in 1..Len(keys) |-> j.o[keys[i]]], 1)
                     errs == AllErrs(r)
                 IN IF errs # {} THEN [errs |-> errs, v |-> PNone]
                    ELSE Ok(PDict([n \in DOMAIN j.o |-> r[IndexOf(keys, n)].v]))
      [] ty.k = "union" ->
            \* the alternatives in declaration order; the first that validates wins
            LET r == ValidateAlts(ty.alts, j, 1)
            IN IF \E i \in 1..Len(r) : r[i].errs = {} THEN FirstOk(r, 1)
               ELSE [errs |-> AllErrs(r), v |-> PNone]

\* Bytes that are not JSON text.
NotJson == [t |-> "invalid"]

\* cls.model_validate_json(raw): the bytes are parsed as JSON, then
\* validated against the class.
model_validate_json(cls, j) ==
    IF j = NotJson THEN Err("json_invalid") ELSE ValidateModel(cls, j)

-----------------------------------------------------------------------------
(* Serialisation: model_dump_json.                                         *)

\* The offset suffix datetime serialisation writes: "Z" for UTC.
OffsetText(tz) == IF tz = "naive" THEN <<>> ELSE IF tz = "UTC" THEN <<"Z">> ELSE <<tz>>

RECURSIVE Dump(_, _, _)
Dump(v, by_alias, exclude_none) ==
    CASE v.p = "str" -> JStr(v.s)
      [] v.p = "int" -> JInt(v.n)
      [] v.p = "bool" -> JBool(v.b)
      [] v.p = "None" -> JNull
      [] v.p = "Url" -> JStr(v.s)
      [] v.p = "datetime" -> JStr(<<v.naive>> \o OffsetText(v.tz))
      [] v.p = "list" -> JArr([i \in 1..Len(v.a) |-> Dump(v.a[i], by_alias, exclude_none)])
      [] v.p = "dict" ->
            LET kept == {n \in DOMAIN v.d : ~(exclude_none /\ v.d[n] = PNone)}
            IN JObj([n \in kept |-> Dump(v.d[n], by_alias, exclude_none)])
      [] v.p = "model" ->
            LET fs == Fields(v.cls)
                kept == {i \in 1..Len(fs) : ~(exclude_none /\ v.f[FieldName(fs[i])] = PNone)}
                key(i) == IF by_alias THEN Alias(v.cls, fs[i]) ELSE FieldName(fs[i])
                at(n) == CHOOSE i \in kept : key(i) = n
            IN JObj([n \in {key(i) : i \in kept} |->
                        Dump(v.f[FieldName(fs[at(n)])], by_alias, exclude_none)])

\* (without the override of ClientV1: pydantic's own default everywhere)
exclude_none_default_NotOverridden(cls) == FALSE

\* The default of the exclude_none keyword: ClientV1 overrides model_dump_json
\* with exclude_none=True; the manifests use pydantic's own (False).
exclude_none_default(cls) == cls = "ClientV1"

\* (an override that does not hand by_alias on to BaseModel.model_dump_json)
model_dump_json_AliasDropped(d, kw) ==
    LET exclude_none == IF kw.exclude_none = "default" THEN exclude_none_default(d.cls)
                        ELSE kw.exclude_none = "True"
    IN Dump(d, FALSE, exclude_none)

\* doc.model_dump_json(by_alias=..., exclude_none=...); a keyword that is
\* not passed is "default".
model_dump_json(d, kw) ==
    LET by_alias == IF kw.by_alias = "default" THEN FALSE ELSE kw.by_alias = "True"
        exclude_none == IF kw.exclude_none = "default" THEN exclude_none_default(d.cls)
                        ELSE kw.exclude_none = "True"
    IN Dump(d, by_alias, exclude_none)

-----------------------------------------------------------------------------
(* The documents callers submit.  Each is a well-formed document of the    *)
(* shape the launcher service publishes, or differs from one in one place. *)

U(origin, a, b) == JStr(<<origin, "/", a, "/", b>>)

EntryTimes == <<"2023-10-04T13:32:44", "2023-09-20T09:02:57", "2010-07-08T22:00:00">>

\* The i-th entry of versions; a v2 entry carries sha1 and complianceLevel.
ManifestEntry(i, v2) ==
    LET time == EntryTimes[((i - 1) % Len(EntryTimes)) + 1]
        common == [id |-> JStr(<<"1", ".", Digits[i + 1]>>),
                   type |-> W(IF i = 1 THEN "snapshot" ELSE "release"),
                   url |-> U("https://piston-meta.mojang.com", "v1", "1.20.2.json"),
                   time |-> JStr(<<time, "+00:00">>),
                   releaseTime |-> JStr(<<time, "+00:00">>)]
    IN JObj(IF v2 THEN ("sha1" :> W("9ead053b")) @@ ("complianceLevel" :> JInt(1)) @@ common
            ELSE common)

Manifest(v2, n) ==
    JObj([latest |-> JObj([release |-> JStr(<<"1", ".", "2">>),
                           snapshot |-> JStr(<<"1", ".", "1">>)]),
          versions |-> JArr([i \in 1..n |-> ManifestEntry(i, v2)])])

DownloadOf(file) ==
    JObj([sha1 |-> W("5b868151"), size |-> JInt(4),
          url |-> U("https://piston-data.mojang.com", "v1", file)])

ArtifactOf(path) ==
    JObj([path |-> W(path), sha1 |-> W("a4b8e10e"), size |-> JInt(3),
          url |-> JStr(<<"https://libraries.minecraft.net", "/", path>>)])

ArgumentsOf ==
    JObj([game |-> JArr(<<
              W("--username"),
              JObj([rules |-> JArr(<<JObj([action |-> W("allow"),
                                           features |-> JObj([is_demo_user |-> JBool(TRUE)])])>>),
                    value |-> W("--demo")]) >>),
          jvm |-> JArr(<<
              JObj([rules |-> JArr(<<JObj([action |-> W("allow"),
                                           os |-> JObj([name |-> W("osx")])])>>),
                    value |-> JArr(<<W("-XstartOnFirstThread")>>)]),
              W("-cp") >>)])

\* The first library uses every key; the others only name and downloads.
LibraryOf(i) ==
    IF i = 1
    THEN JObj([downloads |-> JObj([artifact |-> ArtifactOf("lwjgl.jar"),
                                   classifiers |-> JObj([osx |-> ArtifactOf("lwjgl-osx.jar")])]),
               name |-> W("org.lwjgl:lwjgl:3.3.1"),
               url |-> JStr(<<"https://libraries.minecraft.net">>),
               natives |-> JObj([osx |-> W("natives-osx")]),
               extract |-> JObj([exclude |-> JArr(<<W("META-INF/")>>)]),
               rules |-> JArr(<<JObj([action |-> W("allow"),
                                      os |-> JObj([name |-> W("osx")])])>>)])
    ELSE JObj([downloads |-> JObj([artifact |-> ArtifactOf("guava.jar")]),
               name |-> W("com.google.guava:guava:31.1")])

\* A client descriptor with n libraries and the optional top-level keys of opt.
Client(opt, n) ==
    LET always == [
          assetIndex |-> JObj([id |-> W("8"), sha1 |-> W("fe5f0b6f"), size |-> JInt(1),
                               totalSize |-> JInt(2),
                               url |-> U("https://piston-meta.mojang.com", "v1", "8.json")]),
          assets |-> W("8"),
          complianceLevel |-> JInt(1),
          downloads |-> JObj([client |-> DownloadOf("client.jar"),
                              client_mappings |-> DownloadOf("client.txt"),
                              server |-> DownloadOf("server.jar"),
                              server_mappings |-> DownloadOf("server.txt"),
                              windows_server |-> DownloadOf("server.exe")]),
          id |-> W("1.20.2"),
          javaVersion |-> JObj([component |-> W("java-runtime-gamma"),
                                majorVersion |-> JInt(17)]),
          libraries |-> JArr([i \in 1..n |-> LibraryOf(i)]),
          logging |-> JObj([client |-> JObj([
              argument |-> W("-Dlog4j.configurationFile"),
              file |-> JObj([id |-> W("client-1.12.xml"), sha1 |-> W("bd65e7d2"),
                             size |-> JInt(5),
                             url |-> W("https://piston-data.mojang.com/client-1.12.xml")]),
              type |-> W("log4j2-xml")])]),
          mainClass |-> W("net.minecraft.client.main.Main"),
          minimumLauncherVersion |-> JInt(21),
          releaseTime |-> W("2023-09-20T09:02:57+00:00"),
          time |-> W("2023-09-20T09:02:57+00:00"),
          type |-> W("release")]
        optional == [arguments |-> ArgumentsOf, minecraftArguments |-> W("--username")]
    IN JObj([n2 \in opt |-> optional[n2]] @@ always)

\* The optional top-level keys present, and the number of libraries: the
\* full descriptor, and the modern, legacy and bare ones without libraries.
ClientShapes == {<<{"arguments", "minecraftArguments"}, MaxEntries>>,
                 <<{"arguments"}, 0>>, <<{"minecraftArguments"}, 0>>, <<{}, 0>>}

\* The well-formed documents of a schema.
WellFormed(cls) ==
    CASE cls = "VersionManifestV1" -> {Manifest(FALSE, n) : n \in 0..MaxEntries}
      [] cls = "VersionManifestV2" -> {Manifest(TRUE, n) : n \in 0..MaxEntries}
      [] cls = "ClientV1" -> {Client(sh[1], sh[2]) : sh \in ClientShapes}

\* The two spellings of a field name.
Snake(f) == Join(f.words, "_")
Camel(f) == f.words[1] \o TitleAll(Tail(f.words))
OtherSpelling(cls, f) == IF Alias(cls, f) = Camel(f) THEN Snake(f) ELSE Camel(f)
MultiWord(f) == Len(f.words) > 1

\* Values a caller may put in the place of another.
Replacements == {JNull, JInt(1), JStr(<<"1", "7">>)}
ReplacementName(j) == IF j.t = "string" THEN "numeric string" ELSE j.t

\* The alternative of a type that a JSON value is read as, by its shape.
ShapeFits(ty, j) ==
    CASE ty.k \in {"model", "dict"} -> j.t = "object"
      [] ty.k = "list" -> j.t = "array"
      [] ty.k \in {"str", "AnyUrl", "datetime"} -> j.t = "string"
      [] ty.k = "int" -> j.t = "number"
      [] ty.k = "bool" -> j.t = "bool"
      [] ty.k = "None" -> j.t = "null"
      [] OTHER -> FALSE

Edit(d, kind, at, key, elem, to) ==
    [doc |-> d, kind |-> kind, at |-> at, key |-> key, elem |-> elem, to |-> to]

Without(o, n) == [m \in DOMAIN o \ {n} |-> o[m]]
With(o, n, v) == (n :> v) @@ o

EditKinds == {"add", "remove", "rekey", "replace"}

\* Every document that differs from j in one place, by one change of the
\* given kind; at/key name the enclosing class and the key concerned.
RECURSIVE Variants(_, _, _, _)
Variants(kind, ty, j, ctx) ==
    CASE ty.k = "model" /\ j.t = "object" ->
            LET cls == ty.cls
                fs == Fields(cls)
                o == j.o
                declared == {Alias(cls, fs[i]) : i \in 1..Len(fs)}
                present == {i \in 1..Len(fs) : Alias(cls, fs[i]) \in DOMAIN o}
                multi == {i \in 1..Len(fs) : MultiWord(fs[i])}
                valueOf(i) == IF i \in present THEN o[Alias(cls, fs[i])] ELSE W("x")
                here ==
                    CASE kind = "add" ->
                            {Edit(JObj(With(o, "unknownKey", W("x"))), kind, cls,
                                  "unknownKey", FALSE, "-")}
                            \cup {Edit(JObj(With(o, OtherSpelling(cls, fs[i]), valueOf(i))),
                                       kind, cls, OtherSpelling(cls, fs[i]), FALSE, "-")
                                  : i \in {h \in multi : OtherSpelling(cls, fs[h]) \notin DOMAIN o}}
                            \cup (IF cls = "VersionManifestV1.Version"
                                  THEN {Edit(JObj(With(o, "sha1", W("9ead053b"))), kind, cls,
                                             "sha1", FALSE, "-"),
                                        Edit(JObj(With(o, "complianceLevel", JInt(1))), kind, cls,
                                             "complianceLevel", FALSE, "-")}
                                  ELSE {})
                      [] kind = "remove" ->
                            {Edit(JObj(Without(o, n)), kind, cls, n, FALSE, "-") : n \in DOMAIN o}
                      [] kind = "rekey" ->
                            {Edit(JObj(With(Without(o, Alias(cls, fs[i])),
                                            OtherSpelling(cls, fs[i]), valueOf(i))),
                                  kind, cls, Alias(cls, fs[i]), FALSE, OtherSpelling(cls, fs[i]))
                             : i \in present \cap multi}
                      [] kind = "replace" ->
                            {Edit(JObj([o EXCEPT ![n] = r]), kind, cls, n, FALSE,
                                  ReplacementName(r))
                             : <<n, r>> \in {p \in (DOMAIN o \cap declared) \X Replacements :
                                                o[p[1]] # p[2]}}
                below == UNION {
                    {[e EXCEPT !.doc = JObj([o EXCEPT ![Alias(cls, fs[i])] = e.doc])]
                     : e \in Variants(kind, fs[i].type, o[Alias(cls, fs[i])],
                                      [at |-> cls, key |-> Alias(cls, fs[i])])}
                    : i \in present}
            IN here \cup below
      [] ty.k = "list" /\ j.t = "array" ->
            LET here == IF kind # "replace" THEN {}
                        ELSE {Edit(JArr([j.a EXCEPT ![i] = r]), kind, ctx.at, ctx.key, TRUE,
                                   ReplacementName(r))
                              : <<i, r>> \in {p \in (1..Len(j.a)) \X Replacements :
                                                 j.a[p[1]] # p[2]}}
                below == UNION {
                    {[e EXCEPT !.doc = JArr([j.a EXCEPT ![i] = e.doc])]
                     : e \in Variants(kind, ty.of, j.a[i], ctx)}
                    : i \in 1..Len(j.a)}
            IN here \cup below
      [] ty.k = "dict" /\ j.t = "object" ->
            LET here == IF kind # "replace" THEN {}
                        ELSE {Edit(JObj([j.o EXCEPT ![n] = r]), kind, ctx.at, ctx.key, TRUE,
                                   ReplacementName(r))
                              : <<n, r>> \in {p \in (DOMAIN j.o) \X Replacements :
                                                 j.o[p[1]] # p[2]}}
                below == UNION {
                    {[e EXCEPT !.doc = JObj([j.o EXCEPT ![n] = e.doc])]
                     : e \in Variants(kind, ty.of, j.o[n], ctx)}
                    : n \in DOMAIN j.o}
            IN here \cup below
      [] ty.k = "union" ->
            LET fits == {i \in 1..Len(ty.alts) : ShapeFits(ty.alts[i], j)}
            IN IF fits = {} THEN {}
               ELSE Variants(kind, ty.alts[CHOOSE i \in fits : \A h \in fits : i <= h], j, ctx)
      [] OTHER -> {}

-----------------------------------------------------------------------------
(* Attribute assignment on a document object or on an object nested in it. *)

Attempt(d, at, name, raised) == [doc |-> d, at |-> at, name |-> name, raised |-> raised]

Changed == PStr(<<"changed">>)

\* obj.name = Changed, for every object of the tree under v and every field
\* of it: a frozen class raises and keeps the value, another stores it.
RECURSIVE SetAttrs(_)
SetAttrs(v) ==
    CASE v.p = "model" ->
            LET here == {IF model_config(v.cls).frozen
                         THEN Attempt(v, v.cls, n, TRUE)
                         ELSE Attempt([v EXCEPT !.f[n] = Changed], v.cls, n, FALSE)
                         : n \in DOMAIN v.f}
                below == UNION {{[e EXCEPT !.doc = [v EXCEPT !.f[n] = e.doc]]
                                 : e \in SetAttrs(v.f[n])} : n \in DOMAIN v.f}
            IN here \cup below
      [] v.p = "list" ->
            UNION {{[e EXCEPT !.doc = [v EXCEPT !.a[i] = e.doc]] : e \in SetAttrs(v.a[i])}
                   : i \in 1..Len(v.a)}
      [] v.p = "dict" ->
            UNION {{[e EXCEPT !.doc = [v EXCEPT !.d[n] = e.doc]] : e \in SetAttrs(v.d[n])}
                   : n \in DOMAIN v.d}
      [] OTHER -> {}

-----------------------------------------------------------------------------
(* The calls on documents.                                                 *)

NoEdit == [kind |-> "none", at |-> "-", key |-> "-", elem |-> FALSE, to |-> "-"]
NoCall == [op |-> "none"]

Init ==
    /\ schema \in Schemas
    /\ raw \in WellFormed(schema)
    /\ edit = NoEdit
    /\ doc = PNone
    /\ built = PNone
    /\ last = NoCall

\* The caller holds a document that differs from a well-formed one in one place.
Change ==
    /\ edit = NoEdit /\ last = NoCall
    /\ \E kind \in EditKinds :
         \E e \in Variants(kind, TModel(schema), raw, [at |-> schema, key |-> "-"]) :
            /\ raw' = e.doc
            /\ edit' = [kind |-> e.kind, at |-> e.at, key |-> e.key, elem |-> e.elem,
                        to |-> e.to]
    /\ UNCHANGED <<schema, doc, built, last>>

\* schema.model_validate_json(raw)
Parse ==
    /\ last = NoCall
    /\ LET r == model_validate_json(schema, raw)
       IN /\ doc' = r.v
          /\ built' = r.v
          /\ last' = [op |-> "model_validate_json", errs |-> r.errs]
    /\ UNCHANGED <<schema, raw, edit>>

KeywordValues == {"default", "True", "False"}

\* doc.model_dump_json(by_alias=..., exclude_none=...)
Serialize ==
    /\ doc # PNone
    /\ \E by_alias \in {"True", "False"}, exclude_none \in KeywordValues :
         LET kw == [by_alias |-> by_alias, exclude_none |-> exclude_none]
         IN last' = [op |-> "model_dump_json", kwargs |-> kw, out |-> model_dump_json(doc, kw)]
    /\ UNCHANGED <<schema, raw, edit, doc, built>>

\* schema.model_validate_json(doc.model_dump_json(...)): the output of the
\* last model_dump_json call is validated again.
Revalidate ==
    /\ last.op = "model_dump_json"
    /\ LET r == model_validate_json(schema, last.out)
       IN last' = [op |-> "revalidate", kwargs |-> last.kwargs, out |-> last.out,
                   errs |-> r.errs, v |-> r.v]
    /\ UNCHANGED <<schema, raw, edit, doc, built>>

\* obj.name = value, on the document or an object nested in it.
SetAttr ==
    /\ doc # PNone
    /\ \E a \in SetAttrs(doc) :
         /\ doc' = a.doc
         /\ last' = [op |-> "setattr", at |-> a.at, name |-> a.name, raised |-> a.raised]
    /\ UNCHANGED <<schema, raw, edit, built>>

Next == Change \/ Parse \/ Serialize \/ Revalidate

Spec == Init /\ [][Next]_vars

\* Documents built from well-formed input, then any sequence of
\* serialisations and attempted assignments.
FrozenNext == Parse \/ Serialize \/ SetAttr

FrozenSpec == Init /\ [][FrozenNext]_vars

-----------------------------------------------------------------------------
(* urls.py                                                                 *)

\* pydantic_core.Url(text): raises on an invalid URL, else holds the
\* normalised text.
Url(s) == IF UrlValid(s) THEN [raised |-> FALSE, text |-> UrlNormalise(s)]
          ELSE [raised |-> TRUE, text |-> <<>>]

package_url(hash, file, api_version) ==
    Url(<<"https://piston-meta.mojang.com", "/", "v">> \o IntToStr(api_version)
        \o <<"/", "packages", "/">> \o hash \o <<"/">> \o file)

\* (a slice one character too long)
resource_url_ThreeChars(hash) ==
    Url(<<"https://resources.download.minecraft.net", "/">> \o Prefix(hash, 3)
        \o <<"/">> \o hash)

resource_url(hash) ==
    Url(<<"https://resources.download.minecraft.net", "/">> \o Prefix(hash, 2)
        \o <<"/">> \o hash)

\* (a two-valued choice: anything but 1 is v2)
version_manifest_url_TwoValued(file_version) ==
    LET version == IF file_version = 1 THEN <<>> ELSE <<"_v", "2">>
    IN Url(<<"https://piston-meta.mojang.com", "/", "mc", "/", "game", "/",
             "version_manifest">> \o version \o <<".json">>)

version_manifest_url(file_version) ==
    LET version == IF file_version = 1 THEN <<>> ELSE <<"_v">> \o IntToStr(file_version)
    IN Url(<<"https://piston-meta.mojang.com", "/", "mc", "/", "game", "/",
             "version_manifest">> \o version \o <<".json">>)

\* The defaults of the keyword parameters.
api_version_default == 1
file_version_default == 2

\* An optional argument is passed as <<>> (omitted) or <<value>>.
ArgOr(arg, default) == IF arg = <<>> THEN default ELSE arg[1]

Texts(alphabet, lo, hi) == UNION {[1..n -> alphabet] : n \in lo..hi}

HashChars == {"a", "4", "."}
FileChars == {"j", "."}
Hashes == Texts(HashChars, 1, MaxHashLen)
Files == Texts(FileChars, 0, MaxFileLen)
Versions == {<<>>} \cup {<<n>> : n \in (0 - 1)..MaxVersion}

\* The caller has chosen the arguments of a call; an argument a function
\* does not take is not read.
UrlInit ==
    /\ schema = "ClientV1"
    /\ raw = Client({}, 0)
    /\ edit = NoEdit
    /\ doc = PNone
    /\ built = PNone
    /\ \E hash \in Hashes, file \in Files, version \in Versions :
         last = [op |-> "args", hash |-> hash, file |-> file, version |-> version]

CallPackageUrl ==
    /\ last.op = "args"
    /\ last' = [op |-> "package_url", hash |-> last.hash, file |-> last.file,
                api_version |-> last.version,
                ret |-> package_url(last.hash, last.file,
                                    ArgOr(last.version, api_version_default))]
    /\ UNCHANGED <<schema, raw, edit, doc, built>>

CallResourceUrl ==
    /\ last.op = "args"
    /\ last' = [op |-> "resource_url", hash |-> last.hash, ret |-> resource_url(last.hash)]
    /\ UNCHANGED <<schema, raw, edit, doc, built>>

CallVersionManifestUrl ==
    /\ last.op = "args"
    /\ last' = [op |-> "version_manifest_url", file_version |-> last.version,
                ret |-> version_manifest_url(ArgOr(last.version, file_version_default))]
    /\ UNCHANGED <<schema, raw, edit, doc, built>>

UrlNext == CallPackageUrl \/ CallResourceUrl \/ CallVersionManifestUrl

UrlSpec == UrlInit /\ [][UrlNext]_vars

-----------------------------------------------------------------------------
(* download: one HTTP GET, then model_validate_json of the body.           *)

\* The exceptions requests.get raises when no response arrives.
RequestExceptions == {"ConnectionError", "Timeout"}

\* The status codes of the responses considered.
StatusCodes == {200, 404, 500}

\* A JSON body that is no document of any schema: an error page.
ErrorBody == JObj([error |-> W("Not Found")])

\* What the network does with one request: no response, or a response with
\* a status and a body (the document held for the url, an error page, or
\* bytes that are not JSON).
Networks(held) ==
    {[error |-> e, status |-> 0, content |-> NotJson] : e \in RequestExceptions}
      \cup {[error |-> "none", status |-> st, content |-> c] :
                st \in StatusCodes, c \in {held, ErrorBody, NotJson}}

\* The locators a caller passes: a str or an AnyUrl.
Locators ==
    LET text == <<"https://piston-meta.mojang.com", "/", "v1", "/", "1.20.2.json">>
    IN {PStr(text), PUrl(text)}

\* requests.get(url): raises when no response arrives; otherwise returns the
\* response whatever its status (raise_for_status is not called).
requests_get(url, net) ==
    IF net.error # "none"
    THEN [raised |-> net.error, status_code |-> 0, content |-> NotJson]
    ELSE [raised |-> "none", status_code |-> net.status, content |-> net.content]

\* cls.download(url): an AnyUrl is turned into its text, one GET is sent, and
\* the content of the response is validated; an exception of requests.get
\* leaves before validation.
download(cls, url, net) ==
    LET target == IF url.p = "str" THEN url.s ELSE UrlNormalise(url.s)
        response == requests_get(target, net)
    IN IF response.raised # "none"
       THEN [sent |-> <<target>>, raised |-> response.raised, parsed |-> FALSE,
             errs |-> {}, v |-> PNone]
       ELSE LET r == model_validate_json(cls, response.content)
            IN [sent |-> <<target>>,
                raised |-> IF r.errs = {} THEN "none" ELSE "ValidationError",
                parsed |-> TRUE, errs |-> r.errs, v |-> r.v]

\* schema.download(url)
Download ==
    /\ last = NoCall
    /\ \E url \in Locators, net \in Networks(raw) :
         \E r \in {download(schema, url, net)} :
            /\ doc' = r.v
            /\ built' = r.v
            /\ last' = [op |-> "download", url |-> url, error |-> net.error,
                        status |-> net.status, content |-> net.content,
                        sent |-> r.sent, raised |-> r.raised, parsed |-> r.parsed,
                        errs |-> r.errs]
    /\ UNCHANGED <<schema, raw, edit>>

DownloadNext == Download

DownloadSpec == Init /\ [][DownloadNext]_vars

-----------------------------------------------------------------------------
(* Client descriptors whose asset index carries any sizes.                 *)

Sizes == (0 - MaxSize)..MaxSize

\* The descriptor d with the given size and totalSize in its assetIndex.
Sized(d, size, total_size) ==
    LET index == d.o["assetIndex"].o
    IN JObj(With(d.o, "assetIndex",
                 JObj(With(With(index, "size", JInt(size)), "totalSize", JInt(total_size)))))

SizeInit ==
    /\ schema = "ClientV1"
    /\ raw \in {Sized(d, size, total_size) :
                  d \in WellFormed("ClientV1"), size \in Sizes, total_size \in Sizes}
    /\ edit = NoEdit
    /\ doc = PNone
    /\ built = PNone
    /\ last = NoCall

SizeNext == Parse \/ Serialize

SizeSpec == SizeInit /\ [][SizeNext]_vars

-----------------------------------------------------------------------------
(* Helpers of the properties.                                              *)

Parsed == last.op = "model_validate_json"
Accepted == Parsed /\ last.errs = {} /\ doc # PNone
Rejected == Parsed /\ last.errs # {} /\ doc = PNone

\* The declared field of the edited class whose key the edit concerns.
EditedField ==
    LET fs == Fields(edit.at)
    IN fs[CHOOSE i \in 1..Len(fs) : edit.key \in {Camel(fs[i]), Snake(fs[i])}]

\* Every key of every object of a JSON value.
RECURSIVE AllKeys(_)
AllKeys(j) ==
    CASE j.t = "object" -> DOMAIN j.o \cup UNION {AllKeys(j.o[n]) : n \in DOMAIN j.o}
      [] j.t = "array" -> UNION {AllKeys(j.a[i]) : i \in 1..Len(j.a)}
      [] OTHER -> {}

\* Whether a JSON value holds a null anywhere.
RECURSIVE HasNull(_)
HasNull(j) ==
    CASE j.t = "null" -> TRUE
      [] j.t = "object" -> \E n \in DOMAIN j.o : HasNull(j.o[n])
      [] j.t = "array" -> \E i \in 1..Len(j.a) : HasNull(j.a[i])
      [] OTHER -> FALSE

\* Whether a document object holds an unset (None) field anywhere.
RECURSIVE HasUnset(_)
HasUnset(v) ==
    CASE v.p = "None" -> TRUE
      [] v.p = "model" -> \E n \in DOMAIN v.f : HasUnset(v.f[n])
      [] v.p = "list" -> \E i \in 1..Len(v.a) : HasUnset(v.a[i])
      [] v.p = "dict" -> \E n \in DOMAIN v.d : HasUnset(v.d[n])
      [] OTHER -> FALSE

-----------------------------------------------------------------------------
(* C1  Strictness.                                                         *)

\* C1: a document that holds a key its schema does not declare (an unknown
\* key, or the other spelling of a declared key), at the top level or in
\* any nested object, is rejected with an extra_forbidden error and no
\* document object is built.
C1_Strictness ==
    (Parsed /\ edit.kind \in {"add", "rekey"}) =>
        (Rejected /\ "extra_forbidden" \in last.errs)

\* An unknown key deep inside a library's rule was submitted and rejected.
C1_Witness ==
    /\ Rejected
    /\ edit.kind = "add" /\ edit.key = "unknownKey"
    /\ edit.at = "ClientV1.Library.Rule.OS"

-----------------------------------------------------------------------------
(* C2  Name mapping.                                                       *)

\* The multi-word fields of every class.
Classes ==
    {"VersionManifestV1", "VersionManifestV1.Latest", "VersionManifestV1.Version",
     "VersionManifestV2", "VersionManifestV2.Latest", "VersionManifestV2.Version",
     "ClientV1", "ClientV1.Arguments", "ClientV1.Arguments.ConditionalGameArgument",
     "ClientV1.Arguments.ConditionalGameArgument.Rule",
     "ClientV1.Arguments.ConditionalJVMArgument",
     "ClientV1.Arguments.ConditionalJVMArgument.Rule",
     "ClientV1.Arguments.ConditionalJVMArgument.Rule.OS",
     "ClientV1.AssetIndex", "ClientV1.Downloads", "ClientV1.Downloads.Download",
     "ClientV1.JavaVersion", "ClientV1.Library", "ClientV1.Library.Downloads",
     "ClientV1.Library.Downloads.Artifact", "ClientV1.Library.Extract",
     "ClientV1.Library.Rule", "ClientV1.Library.Rule.OS", "ClientV1.Logging",
     "ClientV1.Logging.Client", "ClientV1.Logging.Client.File"}

SnakeKeys ==
    UNION {{Snake(Fields(c)[i]) : i \in {h \in 1..Len(Fields(c)) : MultiWord(Fields(c)[h])}}
           : c \in Classes}

DumpedByAlias == last.op = "model_dump_json" /\ last.kwargs.by_alias = "True"

-----------------------------------------------------------------------------
(* C3  Round trip.                                                         *)

RoundTripped ==
    /\ last.op = "revalidate"
    /\ last.kwargs.by_alias = "True"
    /\ last.kwargs.exclude_none = "False"

\* C3: a document dumped by alias with unset fields included, and validated
\* again by the same schema, is accepted and equal to the document.
C3_RoundTrip == RoundTripped => (last.errs = {} /\ last.v = doc)

\* A document with unset fields was round-tripped through a text that is
\* not the text it was built from.
C3_Witness ==
    /\ RoundTripped /\ last.errs = {}
    /\ doc # PNone /\ HasUnset(doc) /\ HasNull(last.out)
    /\ last.out # raw

-----------------------------------------------------------------------------
(* C4  Omit-default policy.                                                *)

\* C4: the output of model_dump_json called without exclude_none holds no
\* null: the key of every unset field, at any depth, is omitted.
C4_OmitUnset ==
    (last.op = "model_dump_json" /\ last.kwargs.exclude_none = "default") =>
        ~HasNull(last.out)

\* A client descriptor whose library lost an optional key was dumped with
\* the default options.
C4_Witness ==
    /\ last.op = "model_dump_json" /\ last.kwargs.exclude_none = "default"
    /\ schema = "ClientV1" /\ HasUnset(doc)
    /\ edit.kind = "remove" /\ edit.at = "ClientV1.Library"

-----------------------------------------------------------------------------
(* C5  Union resolution.                                                   *)

GameArgument == "ClientV1.Arguments.ConditionalGameArgument"
JVMArgument == "ClientV1.Arguments.ConditionalJVMArgument"

ElementReplaced(by) ==
    /\ Parsed /\ edit.kind = "replace" /\ edit.elem
    /\ edit.at = "ClientV1.Arguments" /\ edit.key \in {"game", "jvm"}
    /\ edit.to = by

\* C5: in Arguments.game and Arguments.jvm a string is read as a plain
\* string and an object with rules and value as the conditional argument of
\* that list; a number or null element, a conditional argument without
\* rules or without value, a game rule without features and a jvm rule
\* without os make the whole document rejected.
C5_UnionResolution ==
    /\ (Accepted /\ edit = NoEdit /\ schema = "ClientV1" /\ "arguments" \in DOMAIN raw.o) =>
          LET game == doc.f["arguments"].f["game"].a
              jvm == doc.f["arguments"].f["jvm"].a
          IN /\ game[1] = PStr(<<"--username">>)
             /\ game[2].p = "model" /\ game[2].cls = GameArgument
             /\ jvm[1].p = "model" /\ jvm[1].cls = JVMArgument
             /\ jvm[2] = PStr(<<"-cp">>)
    /\ ElementReplaced("number") => Rejected
    /\ ElementReplaced("null") => Rejected
    /\ ElementReplaced("numeric string") =>
          /\ Accepted
          /\ LET a == doc.f["arguments"].f[edit.key].a
             IN \E i \in 1..Len(a) : a[i] = PStr(<<"1", "7">>)
    /\ (Parsed /\ edit.kind = "remove" /\ edit.at \in {GameArgument, JVMArgument}) => Rejected
    /\ (Parsed /\ edit.kind = "remove" /\ edit.key = "features"
          /\ edit.at = "ClientV1.Arguments.ConditionalGameArgument.Rule") => Rejected
    /\ (Parsed /\ edit.kind = "remove" /\ edit.key = "os"
          /\ edit.at = "ClientV1.Arguments.ConditionalJVMArgument.Rule") => Rejected

\* A descriptor whose jvm rule lost its os was submitted and rejected.
C5_Witness ==
    /\ Rejected /\ edit.kind = "remove" /\ edit.key = "os"
    /\ edit.at = "ClientV1.Arguments.ConditionalJVMArgument.Rule"

-----------------------------------------------------------------------------
(* C6  Manifest version separation.                                        *)

HashKeys == {"sha1", "complianceLevel"}

NonEmptyVersions ==
    /\ "versions" \in DOMAIN raw.o
    /\ raw.o["versions"].t = "array"
    /\ Len(raw.o["versions"].a) > 0

\* C6: VersionManifestV2 rejects a manifest one of whose entries lacks sha1
\* or complianceLevel, VersionManifestV1 rejects a manifest one of whose
\* entries holds sha1 or complianceLevel, and no manifest with a non-empty
\* versions list is accepted by both.
C6_ManifestSeparation ==
    /\ (Parsed /\ schema = "VersionManifestV2" /\ edit.kind = "remove"
          /\ edit.at = "VersionManifestV2.Version" /\ edit.key \in HashKeys) =>
          (Rejected /\ "missing" \in last.errs)
    /\ (Parsed /\ schema = "VersionManifestV1" /\ edit.kind = "add"
          /\ edit.at = "VersionManifestV1.Version" /\ edit.key \in HashKeys) =>
          (Rejected /\ "extra_forbidden" \in last.errs)
    /\ (Parsed /\ schema \in {"VersionManifestV1", "VersionManifestV2"} /\ NonEmptyVersions) =>
          ~(/\ model_validate_json("VersionManifestV1", raw).errs = {}
            /\ model_validate_json("VersionManifestV2", raw).errs = {})

\* A v2 manifest whose entry lost sha1 was submitted and rejected.
C6_Witness ==
    /\ Rejected /\ schema = "VersionManifestV2" /\ NonEmptyVersions
    /\ edit.kind = "remove" /\ edit.key = "sha1"

-----------------------------------------------------------------------------
(* C7  Required and optional fields of ClientV1.                           *)

ClaimedOptional == {"arguments", "minecraftArguments", "logging"}

\* C7 as claimed: a descriptor that lacks one of the required top-level
\* keys is rejected, and one that lacks any of arguments,
\* minecraftArguments and logging is accepted.
C7_AsClaimed ==
    (Parsed /\ schema = "ClientV1" /\ edit.kind = "remove" /\ edit.at = "ClientV1") =>
        IF edit.key \in ClaimedOptional THEN Accepted ELSE Rejected

-----------------------------------------------------------------------------
(* C8  version_manifest_url.                                               *)

ManifestUrl(suffix) ==
    <<"https://piston-meta.mojang.com", "/", "mc", "/", "game", "/", "version_manifest">>
        \o suffix \o <<".json">>

FileVersion == ArgOr(last.file_version, 2)

\* C8 as claimed: version_manifest.json for 1 and version_manifest_v2.json
\* for every other file_version.
C8_AsClaimed ==
    last.op = "version_manifest_url" =>
        last.ret.text = IF FileVersion = 1 THEN ManifestUrl(<<>>) ELSE ManifestUrl(<<"_v", "2">>)

\* C8 (amended): version_manifest.json for 1, and for every other
\* file_version n the file version_manifest_v{n}.json (v2 for the default,
\* v0 for 0, v3 for 3).
C8_VersionManifestUrl ==
    last.op = "version_manifest_url" =>
        /\ ~last.ret.raised
        /\ FileVersion = 1 => last.ret.text = ManifestUrl(<<>>)
        /\ FileVersion = 2 => last.ret.text = ManifestUrl(<<"_v", "2">>)
        /\ FileVersion = 0 => last.ret.text = ManifestUrl(<<"_v", "0">>)
        /\ FileVersion = 3 => last.ret.text = ManifestUrl(<<"_v", "3">>)
        /\ FileVersion # 1 => last.ret.text = ManifestUrl(<<"_v">> \o IntToStr(FileVersion))

\* version_manifest_url(3) returned .../version_manifest_v3.json.
C8_Witness ==
    /\ last.op = "version_manifest_url" /\ last.file_version = <<3>>
    /\ last.ret.text = ManifestUrl(<<"_v", "3">>)

-----------------------------------------------------------------------------
(* C9  package_url and resource_url.                                       *)

\* A path segment that URL normalisation keeps as it is.
Plain(seg) == seg \notin {<<".">>, <<".", ".">>}

FirstTwo(hash) == IF Len(hash) < 2 THEN hash ELSE <<hash[1], hash[2]>>

PackageTemplate ==
    <<"https://piston-meta.mojang.com", "/", "v">>
        \o IntToStr(ArgOr(last.api_version, 1))
        \o <<"/", "packages", "/">> \o last.hash \o <<"/">> \o last.file

ResourceTemplate ==
    <<"https://resources.download.minecraft.net", "/">> \o FirstTwo(last.hash)
        \o <<"/">> \o last.hash

\* C9 as claimed: the functions do not raise, and for every non-empty hash
\* and every file they return the text of their template.
C9_AsClaimed ==
    /\ last.op = "package_url" =>
          /\ ~last.ret.raised
          /\ last.hash # <<>> => last.ret.text = PackageTemplate
    /\ last.op = "resource_url" =>
          /\ ~last.ret.raised
          /\ last.hash # <<>> => last.ret.text = ResourceTemplate

\* C9 (amended): the functions never raise, and for a non-empty hash they
\* return the text of their template whenever no segment built from the
\* arguments (hash, the first two characters of hash, file) is "." or "..";
\* a hash shorter than two characters is its own prefix segment.
C9_UrlTemplates ==
    /\ last.op = "package_url" =>
          /\ ~last.ret.raised
          /\ (last.hash # <<>> /\ Plain(last.hash) /\ Plain(last.file)) =>
                last.ret.text = PackageTemplate
    /\ last.op = "resource_url" =>
          /\ ~last.ret.raised
          /\ (last.hash # <<>> /\ Plain(last.hash) /\ Plain(FirstTwo(last.hash))) =>
                last.ret.text = ResourceTemplate

\* resource_url("a") returned .../a/a.
C9_Witness ==
    /\ last.op = "resource_url" /\ last.hash = <<"a">>
    /\ last.ret.text = <<"https://resources.download.minecraft.net", "/", "a", "/", "a">>

-----------------------------------------------------------------------------
(* C10  Immutability.                                                      *)

\* C10: every attempted assignment to a field of a document or of an object
\* nested in it raises, and after any sequence of calls the document equals
\* the value it was constructed with.
C10_Immutable ==
    /\ doc = built
    /\ last.op = "setattr" => last.raised

\* An assignment to downloads.client_mappings was attempted and raised.
C10_Witness ==
    /\ last.op = "setattr" /\ last.raised
    /\ last.at = "ClientV1.Downloads" /\ last.name = "client_mappings"
    /\ doc # PNone /\ doc = built

-----------------------------------------------------------------------------
(* C11  download.                                                          *)

Downloaded == last.op = "download"
NonSuccess == Downloaded /\ last.error = "none" /\ last.status >= 400

\* C11 as claimed: a download sends exactly one request; an exception of the
\* transport leaves the call as it is, without validation; and a response
\* with a non-success status never gives a document: the call raises.
C11_AsClaimed ==
    Downloaded =>
        /\ Len(last.sent) = 1
        /\ last.error # "none" => (last.raised = last.error /\ ~last.parsed /\ doc = PNone)
        /\ NonSuccess => (doc = PNone /\ last.raised # "none")

\* C11, the part the code keeps: one request, an exception of the transport
\* propagates without validation, a response whose body is no valid document
\* raises a validation error, and the status of the response decides nothing.
C11_OneRequestThenParse ==
    Downloaded =>
        /\ Len(last.sent) = 1
        /\ last.error # "none" => (last.raised = last.error /\ ~last.parsed /\ doc = PNone)
        /\ last.error = "none" =>
              /\ last.parsed
              /\ last.content # raw => (last.raised = "ValidationError" /\ doc = PNone)
              /\ last.content = raw => (last.raised = "none" /\ doc # PNone)

\* A 404 response carrying a valid document gave a document.
C11_NotFoundDocument ==
    /\ NonSuccess /\ last.status = 404 /\ last.content = raw
    /\ last.raised = "none" /\ doc # PNone

-----------------------------------------------------------------------------
(* C12  Non-negative sizes.                                                *)

AssetIndexOf(d) == d.f["asset_index"].f
RawAssetIndex == raw.o["assetIndex"].o

\* C12 as claimed: in every accepted client descriptor asset_index.size and
\* asset_index.total_size are at least 0, and a document with a negative
\* size or totalSize is rejected.
C12_AsClaimed ==
    /\ (Accepted /\ schema = "ClientV1") =>
          /\ AssetIndexOf(doc)["size"].n >= 0
          /\ AssetIndexOf(doc)["total_size"].n >= 0
    /\ (Parsed /\ schema = "ClientV1" /\ edit = NoEdit
          /\ (RawAssetIndex["size"].n < 0 \/ RawAssetIndex["totalSize"].n < 0)) => Rejected

\* A descriptor with size -1 and totalSize -2 was accepted with those values.
C12_NegativeAccepted ==
    /\ Accepted /\ schema = "ClientV1"
    /\ RawAssetIndex["size"] = JInt(0 - 1) /\ RawAssetIndex["totalSize"] = JInt(0 - 2)
    /\ AssetIndexOf(doc)["size"] = PInt(0 - 1)
    /\ AssetIndexOf(doc)["total_size"] = PInt(0 - 2)

====
